---- MODULE Spec2Model ----
(***************************************************************************)
(* otot: the history store and matcher (src/src/database.rs), the input    *)
(* classifier (src/src/url_classify.rs) and the open flow                  *)
(* (src/src/browser.rs).                                                   *)
(*                                                                         *)
(* Text is modelled as TLA+ strings, read character by character with      *)
(* SubSeq, so that parsing, lowercasing, splitting and LIKE matching are   *)
(* computed and not assumed.  score is an f64 that only ever holds small   *)
(* whole numbers, modelled as an integer; frecency is kept in quarters     *)
(* (frecency * 4) so that the multipliers 4.0, 2.0, 0.5 and 0.25 stay      *)
(* integers.                                                               *)
(***************************************************************************)
EXTENDS Integers, Sequences, FiniteSets, TLC

(***************************************************************************)
(* Strings                                                                 *)
(***************************************************************************)
\* The character at index i, "" when there is none.
Ch(s, i) == IF i \in 1..Len(s) THEN SubSeq(s, i, i) ELSE ""

Rest(s, i) == SubSeq(s, i, Len(s))

MinOf(S) == CHOOSE x \in S : \A y \in S : x <= y

\* First index >= from at which sub occurs in s, or 0 (str::find).
FindFrom(s, sub, from) ==
    LET hits == {i \in from..(Len(s) - Len(sub) + 1) : SubSeq(s, i, i + Len(sub) - 1) = sub}
    IN  IF hits = {} THEN 0 ELSE MinOf(hits)

Find(s, sub) == FindFrom(s, sub, 1)

\* str::contains
Contains(s, sub) == Find(s, sub) # 0

\* First index whose character is one of stops, or Len(s) + 1.
FirstOf(s, stops) ==
    LET hits == {i \in 1..Len(s) : Ch(s, i) \in stops}
    IN  IF hits = {} THEN Len(s) + 1 ELSE MinOf(hits)

\* Last index of the character c in s, or 0 (str::rfind).
RFind(s, c) ==
    LET hits == {i \in 1..Len(s) : Ch(s, i) = c}
    IN  IF hits = {} THEN 0 ELSE CHOOSE x \in hits : \A y \in hits : y <= x

UpperAlpha == "ABCDEFGHIJKLMNOPQRSTUVWXYZ"

LowerAlpha == "abcdefghijklmnopqrstuvwxyz"

Digits == "0123456789"

IsUpper(c) == Find(UpperAlpha, c) # 0

IsAlpha(c) == Find(UpperAlpha, c) # 0 \/ Find(LowerAlpha, c) # 0

IsDigit(c) == Find(Digits, c) # 0

ToLowerChar(c) ==
    LET i == Find(UpperAlpha, c) IN IF i = 0 THEN c ELSE Ch(LowerAlpha, i)

\* str::to_lowercase / to_ascii_lowercase on ASCII text.
RECURSIVE to_lowercase(_)
to_lowercase(s) ==
    IF s = "" THEN "" ELSE ToLowerChar(Ch(s, 1)) \o to_lowercase(Rest(s, 2))

\* str::eq_ignore_ascii_case; also SQLite's NOCASE collation on ASCII text.
eq_ignore_ascii_case(a, b) == to_lowercase(a) = to_lowercase(b)

\* str::split(sep) for a one-character separator: keeps empty pieces.
RECURSIVE split(_, _)
split(s, sep) ==
    LET i == Find(s, sep)
    IN  IF i = 0 THEN <<s>>
        ELSE <<SubSeq(s, 1, i - 1)>> \o split(Rest(s, i + 1), sep)

\* Decimal value of a digit string.
RECURSIVE DecimalValue(_)
DecimalValue(s) ==
    IF s = "" THEN 0
    ELSE DecimalValue(SubSeq(s, 1, Len(s) - 1)) * 10 + (Find(Digits, Ch(s, Len(s))) - 1)

AllDigits(s) == s # "" /\ \A i \in 1..Len(s) : IsDigit(Ch(s, i))

(***************************************************************************)
(* Url::parse, Url::domain, Url::path_segments, Url::as_str (crate url),   *)
(* for text of the shape  scheme:[//]host[:port][/path][?query][#fragment] *)
(* over letters, digits and - . / : ? # = &  (no userinfo, no percent      *)
(* escapes, no dot segments, no IPv6).                                     *)
(***************************************************************************)
SpecialSchemes == {"http", "https"}

DefaultPort(scheme) == IF scheme = "http" THEN 80 ELSE 443

ParseError == [ok |-> FALSE]

\* A scheme is a letter followed by letters, digits, +, - or .
IsSchemeText(s) ==
    /\ s # ""
    /\ IsAlpha(Ch(s, 1))
    /\ \A i \in 1..Len(s) : IsAlpha(Ch(s, i)) \/ IsDigit(Ch(s, i)) \/ Ch(s, i) \in {"+", "-", "."}

\* The host "ends in a number": the url crate then parses it as an IPv4 address.
last_is_number(labels) == AllDigits(labels[Len(labels)])

EndsInNumber(host) == last_is_number(split(host, "."))

all_numbers(labels) == Len(labels) <= 4 /\ \A i \in 1..Len(labels) : AllDigits(labels[i])

IsIpv4(host) == all_numbers(split(host, "."))

\* Characters after the scheme's colon that a special scheme skips.
RECURSIVE SkipSlashes(_)
SkipSlashes(s) == IF s # "" /\ Ch(s, 1) = "/" THEN SkipSlashes(Rest(s, 2)) ELSE s

\* The host and port are known: the path, query and fragment follow in tail.
parse_host(scheme, host, portText, portNum, tail) ==
    LET pathEnd  == FirstOf(tail, {"?", "#"})
        rawpath  == SubSeq(tail, 1, pathEnd - 1)
        afterP   == Rest(tail, pathEnd)
        hasQ     == afterP # "" /\ Ch(afterP, 1) = "?"
        qEnd     == FirstOf(afterP, {"#"})
        afterQ   == Rest(afterP, qEnd)
    IN  IF host = "" THEN ParseError            \* empty host
        ELSE IF portText # "" /\ ~AllDigits(portText) THEN ParseError
        ELSE IF portText # "" /\ portNum > 65535 THEN ParseError   \* the port is a u16
        ELSE IF EndsInNumber(host) /\ ~IsIpv4(host) THEN ParseError
        ELSE [ok |-> TRUE, scheme |-> scheme,
              hostKind |-> IF IsIpv4(host) THEN "ipv4" ELSE "domain",
              host |-> host,
              \* 0 stands for None: no port, or the scheme's default port
              port |-> IF portText = "" \/ portNum = DefaultPort(scheme) THEN 0 ELSE portNum,
              path |-> IF rawpath = "" THEN "/" ELSE rawpath,
              query |-> IF hasQ THEN SubSeq(afterP, 2, qEnd - 1) ELSE "",
              hasQuery |-> hasQ,
              fragment |-> IF afterQ # "" THEN Rest(afterQ, 2) ELSE "",
              hasFragment |-> afterQ # "",
              cannot_be_a_base |-> FALSE]

\* The authority of a special scheme: host[:port] up to the first / ? or #.
parse_authority(scheme, auth) ==
    LET authEnd  == FirstOf(auth, {"/", "?", "#"})
        hostport == SubSeq(auth, 1, authEnd - 1)
        pcolon   == RFind(hostport, ":")
        portText == IF pcolon = 0 THEN "" ELSE Rest(hostport, pcolon + 1)
    IN  parse_host(scheme,
                   to_lowercase(IF pcolon = 0 THEN hostport
                                ELSE SubSeq(hostport, 1, pcolon - 1)),
                   portText, DecimalValue(portText), Rest(auth, authEnd))

parse_after_scheme(scheme, after) ==
    IF scheme \notin SpecialSchemes
    THEN \* an opaque path: a URL that cannot be a base
         [ok |-> TRUE, scheme |-> scheme, hostKind |-> "none", host |-> "",
          port |-> 0, path |-> SubSeq(after, 1, FirstOf(after, {"?", "#"}) - 1),
          query |-> "", hasQuery |-> FALSE, fragment |-> "", hasFragment |-> FALSE,
          cannot_be_a_base |-> TRUE]
    ELSE parse_authority(scheme, SkipSlashes(after))

ParseUrl(input) ==
    LET colon == Find(input, ":")
    IN  IF colon = 0 \/ ~IsSchemeText(SubSeq(input, 1, colon - 1))
        THEN ParseError   \* relative URL without a base
        ELSE parse_after_scheme(to_lowercase(SubSeq(input, 1, colon - 1)),
                                Rest(input, colon + 1))

\* Decimal text of a natural number.
RECURSIVE DecimalText(_)
DecimalText(n) ==
    IF n < 10 THEN Ch(Digits, n + 1) ELSE DecimalText(n \div 10) \o Ch(Digits, (n % 10) + 1)

\* Url::as_str: the canonical string form.
as_str(url) ==
    IF url.cannot_be_a_base THEN url.scheme \o ":" \o url.path
    ELSE url.scheme \o "://" \o url.host
         \o (IF url.port = 0 THEN "" ELSE ":" \o DecimalText(url.port))
         \o url.path
         \o (IF url.hasQuery THEN "?" \o url.query ELSE "")
         \o (IF url.hasFragment THEN "#" \o url.fragment ELSE "")

\* Url::domain: the host when it is a domain name; <<>> stands for None.
domain(url) == IF url.hostKind = "domain" THEN <<url.host>> ELSE <<>>

\* Url::path_segments: None (<<>>) for a cannot-be-a-base URL, else the path
\* after its leading slash split on '/'.
path_segments(url) ==
    IF url.cannot_be_a_base THEN <<>> ELSE <<split(Rest(url.path, 2), "/")>>

(***************************************************************************)
(* database.rs: segment extraction                                         *)
(***************************************************************************)
NonEmpty(s) == s # ""

RECURSIVE MapLower(_)
MapLower(q) == IF q = <<>> THEN <<>> ELSE <<to_lowercase(Head(q))>> \o MapLower(Tail(q))

\* if let Some(domain) = url.domain() { segments.push(domain.to_lowercase()) }
domain_segments(d) == IF d # <<>> THEN <<to_lowercase(d[1])>> ELSE <<>>

\* if let Some(path_segments) = url.path_segments(): the non-empty ones, lowercased
path_segment_list(ps) ==
    IF ps # <<>> THEN MapLower(SelectSeq(ps[1], NonEmpty)) ELSE <<>>

segments_of_url(url) ==
    IF ~url.ok THEN [ok |-> FALSE, segments |-> <<>>]
    ELSE [ok |-> TRUE,
          segments |-> domain_segments(domain(url)) \o path_segment_list(path_segments(url))]

\* Mutant: the parse error is swallowed (unwrap_or_default for the ? operator).
extract_segments_or_empty(url_str) ==
    [ok |-> TRUE, segments |-> segments_of_url(ParseUrl(url_str)).segments]

\* extract_segments: [ok |-> FALSE] is the Err of an unparsable URL.
extract_segments(url_str) == segments_of_url(ParseUrl(url_str))

\* Mutant: segments.first() taken for segments.last().
get_first_segment(segments) ==
    IF segments = <<>> THEN "" ELSE segments[1]

\* get_last_segment(..).unwrap_or_default(): the last segment, "" when there is none.
get_last_segment(segments) ==
    IF segments = <<>> THEN "" ELSE segments[Len(segments)]

(***************************************************************************)
(* url_classify.rs: classify_input                                         *)
(***************************************************************************)
\* Mutant: the pieces of the split are not filtered.
fuzzy_pattern_keep_empty(address) == MapLower(split(address, "/"))

\* address.split('/').filter(|s| !s.is_empty()).map(|s| s.to_lowercase())
fuzzy_pattern(address) == MapLower(SelectSeq(split(address, "/"), NonEmpty))

inferred_scheme(address) == IF Contains(address, ":") THEN "http" ELSE "https"

\* url.host_str().is_some_and(|h| h.contains('.')) || url.port().is_some()
host_has_dot_or_port(url) ==
    (url.hostKind # "none" /\ Contains(url.host, ".")) \/ url.port # 0

\* The second attempt: url is Url::parse of the scheme-prefixed form.
classify_with_scheme(address, url) ==
    IF url.ok /\ host_has_dot_or_port(url)
    THEN [kind |-> "FullUrl", url |-> url]
    ELSE [kind |-> "FuzzyPattern", pattern |-> fuzzy_pattern(address)]

classify_input(address) ==
    IF Contains(address, "://") /\ ParseUrl(address).ok
    THEN [kind |-> "FullUrl", url |-> ParseUrl(address)]
    ELSE classify_with_scheme(address,
                              ParseUrl(inferred_scheme(address) \o "://" \o address))

(***************************************************************************)
(* serde_json::to_string / from_str of a Vec<String> whose strings hold no *)
(* quote, backslash or control character (URL segments never do).          *)
(***************************************************************************)
RECURSIVE JsonJoin(_)
JsonJoin(q) ==
    IF q = <<>> THEN ""
    ELSE "\"" \o Head(q) \o "\"" \o (IF Tail(q) = <<>> THEN "" ELSE "," \o JsonJoin(Tail(q)))

json_to_string(segments) == "[" \o JsonJoin(segments) \o "]"

\* The items of the text that follows the opening bracket.
RECURSIVE JsonItems(_)
JsonItems(t) ==
    IF Ch(t, 1) # "\"" THEN <<>>
    ELSE LET close == FindFrom(t, "\"", 2)
             after == Rest(t, close + 1)
         IN  <<SubSeq(t, 2, close - 1)>>
             \o (IF Ch(after, 1) = "," THEN JsonItems(Rest(after, 2)) ELSE <<>>)

json_from_str(text) == JsonItems(Rest(text, 2))

(***************************************************************************)
(* SkimMatcherV2::default().fuzzy_match(choice, pattern).is_some() (crate  *)
(* fuzzy-matcher): smart case, and a match exactly when the pattern's      *)
(* characters occur in the choice in order.                                *)
(***************************************************************************)
contains_upper(s) == \E i \in 1..Len(s) : IsUpper(Ch(s, i))

char_equal(a, b, case_sensitive) ==
    IF case_sensitive THEN a = b ELSE ToLowerChar(a) = ToLowerChar(b)

RECURSIVE cheap_matches(_, _, _)
cheap_matches(choice, pattern, case_sensitive) ==
    IF pattern = "" THEN TRUE
    ELSE IF choice = "" THEN FALSE
    ELSE IF char_equal(Ch(choice, 1), Ch(pattern, 1), case_sensitive)
         THEN cheap_matches(Rest(choice, 2), Rest(pattern, 2), case_sensitive)
         ELSE cheap_matches(Rest(choice, 2), pattern, case_sensitive)

skim_fuzzy_match(choice, pattern) ==
    cheap_matches(choice, pattern, contains_upper(pattern))

(***************************************************************************)
(* database.rs: the pattern matcher                                        *)
(***************************************************************************)
\* Tokens shorter than this are compared for equality, longer ones fuzzily.
ShortTokenLen == 3

\* Mutant: every anchor is decided by the fuzzy test, whatever its length.
anchor_match_fuzzy_only(pattern_seg, url_seg) == skim_fuzzy_match(url_seg, pattern_seg)

\* One anchor check: url_seg against the pattern token.
anchor_match(pattern_seg, url_seg) ==
    IF Len(pattern_seg) < ShortTokenLen
    THEN eq_ignore_ascii_case(pattern_seg, url_seg)
    ELSE skim_fuzzy_match(url_seg, pattern_seg)

\* Index (from 1) of the first element of q equal to x, or 0 (Iterator::position).
position(q, x) ==
    LET hits == {i \in 1..Len(q) : q[i] = x}
    IN  IF hits = {} THEN 0 ELSE MinOf(hits)

\* Mutant: the cursor never advances, every token is searched from the start.
RECURSIVE ordering_scan_from_start(_, _, _)
ordering_scan_from_start(url_segments, pattern, url_idx) ==
    IF pattern = <<>> THEN TRUE
    ELSE IF position(url_segments, Head(pattern)) = 0 THEN FALSE
    ELSE ordering_scan_from_start(url_segments, Tail(pattern), url_idx)

\* Mutant: each token is looked for at the cursor only, not beyond it.
RECURSIVE ordering_scan_no_gaps(_, _, _)
ordering_scan_no_gaps(url_segments, pattern, url_idx) ==
    IF pattern = <<>> THEN TRUE
    ELSE IF url_idx + 1 > Len(url_segments) THEN FALSE
    ELSE IF url_segments[url_idx + 1] # Head(pattern) THEN FALSE
    ELSE ordering_scan_no_gaps(url_segments, Tail(pattern), url_idx + 1)

\* The ordering loop: url_idx segments are already consumed.
RECURSIVE ordering_scan(_, _, _)
ordering_scan(url_segments, pattern, url_idx) ==
    IF pattern = <<>> THEN TRUE
    ELSE LET found == position(SubSeq(url_segments, url_idx + 1, Len(url_segments)), Head(pattern))
         IN  IF found = 0 THEN FALSE
             ELSE ordering_scan(url_segments, Tail(pattern), url_idx + found)

\* Mutant: the anchors crossed, the first token held against the last segment
\* and the last token against the first segment.
match_with_crossed_anchors(url_segments, pattern) ==
    IF pattern = <<>> THEN TRUE
    ELSE IF url_segments # <<>>
            /\ ~anchor_match(pattern[1], url_segments[Len(url_segments)]) THEN FALSE
    ELSE IF url_segments # <<>>
            /\ ~anchor_match(pattern[Len(pattern)], url_segments[1]) THEN FALSE
    ELSE ordering_scan(url_segments, pattern, 0)

\* Mutant: the function without its check of the last anchor.
match_without_last_anchor(url_segments, pattern) ==
    IF pattern = <<>> THEN TRUE
    ELSE IF url_segments # <<>> /\ ~anchor_match(pattern[1], url_segments[1]) THEN FALSE
    ELSE ordering_scan(url_segments, pattern, 0)

does_pattern_match_segments(url_segments, pattern) ==
    IF pattern = <<>> THEN TRUE
    ELSE IF url_segments # <<>> /\ ~anchor_match(pattern[1], url_segments[1]) THEN FALSE
    ELSE IF url_segments # <<>>
            /\ ~anchor_match(pattern[Len(pattern)], url_segments[Len(url_segments)]) THEN FALSE
    ELSE ordering_scan(url_segments, pattern, 0)

(***************************************************************************)
(* database.rs: frecency, in quarters (4 * the f64 the code computes)      *)
(***************************************************************************)
Hour == 3600

Day == 86400

Week == 604800

\* Mutant: every step taken with <= for <.
calculate_frecency_inclusive(score, last_accessed, clock) ==
    LET seconds_ago == clock - last_accessed
        multiplier4 == IF seconds_ago <= Hour THEN 16
                       ELSE IF seconds_ago <= Day THEN 8
                       ELSE IF seconds_ago <= Week THEN 2
                       ELSE 1
    IN  score * multiplier4

calculate_frecency(score, last_accessed, clock) ==
    LET seconds_ago == clock - last_accessed
        multiplier4 == IF seconds_ago < Hour THEN 16
                       ELSE IF seconds_ago < Day THEN 8
                       ELSE IF seconds_ago < Week THEN 2
                       ELSE 1
    IN  score * multiplier4

(***************************************************************************)
(* database.rs: SQL text matching                                          *)
(***************************************************************************)
\* str::replace(r"\.", ".")
RECURSIVE unescape_dots(_)
unescape_dots(s) ==
    IF s = "" THEN ""
    ELSE IF Len(s) >= 2 /\ SubSeq(s, 1, 2) = "\\." THEN "." \o unescape_dots(Rest(s, 3))
    ELSE Ch(s, 1) \o unescape_dots(Rest(s, 2))

RECURSIVE trim_start_matches(_, _)
trim_start_matches(s, c) ==
    IF s # "" /\ Ch(s, 1) = c THEN trim_start_matches(Rest(s, 2), c) ELSE s

RECURSIVE trim_end_matches(_, _)
trim_end_matches(s, c) ==
    IF s # "" /\ Ch(s, Len(s)) = c THEN trim_end_matches(SubSeq(s, 1, Len(s) - 1), c) ELSE s

starts_with(s, c) == s # "" /\ Ch(s, 1) = c

ends_with(s, c) == s # "" /\ Ch(s, Len(s)) = c

\* The branches of convert_pattern_to_like on the text without escaped dots.
anchors_to_wildcards(unescaped) ==
    IF starts_with(unescaped, "^") /\ ends_with(unescaped, "$")
    THEN trim_end_matches(trim_start_matches(unescaped, "^"), "$")
    ELSE IF starts_with(unescaped, "^")
    THEN trim_start_matches(unescaped, "^") \o "%"
    ELSE IF ends_with(unescaped, "$")
    THEN "%" \o trim_end_matches(unescaped, "$")
    ELSE "%" \o unescaped \o "%"

convert_pattern_to_like(pattern) == anchors_to_wildcards(unescape_dots(pattern))

\* SQLite's  text LIKE pattern : % is any run of characters, _ is any one
\* character, and ASCII letters compare without regard to case.
RECURSIVE sql_like(_, _)
sql_like(pattern, text) ==
    IF pattern = "" THEN text = ""
    ELSE IF Ch(pattern, 1) = "%"
         THEN \E k \in 0..Len(text) : sql_like(Rest(pattern, 2), Rest(text, k + 1))
    ELSE IF text = "" THEN FALSE
    ELSE IF Ch(pattern, 1) = "_" \/ ToLowerChar(Ch(pattern, 1)) = ToLowerChar(Ch(text, 1))
         THEN sql_like(Rest(pattern, 2), Rest(text, 2))
    ELSE FALSE

(***************************************************************************)
(* The store: the rows of table urls in rowid order, the clock, and the    *)
(* latest call with what it returned.  visits is a history variable: the   *)
(* successful add_visit calls per URL since the URL last had no record.    *)
(* in_flight holds, per concurrent caller, the add_visit call it has begun *)
(* and not yet executed.                                                   *)
(***************************************************************************)
VARIABLES db, now, last, visits, in_flight

vars == <<db, now, last, visits, in_flight>>

\* Bound of the model: the visits the store may count, all records together.
MaxVisits == 4

\* Bound of the model: the hours the clock may advance.
MaxTicks == 2

\* The clock's first reading, and a visit time long before it (the tests' old_time).
Now0 == 2000000

OldTime == 1000

Year == 31536000

\* Bound of the model: the callers that use the store at the same time, each
\* through a connection of its own.
MaxCallers == 2

Callers == 1..MaxCallers

\* A caller that is not inside add_visit.
Idle == [pc |-> "idle"]

\* Strings handed to add_visit.
UrlInputs ==
    {"https://github.com/rust-lang/rust",
     "https://github.com/microsoft/rust",
     "https://gitlab.com/rust-lang/rust",
     "https://github.com/rust/rusty",
     "github.com/rust"}

\* Patterns handed to fuzzy_match and get_best_match.
Patterns ==
    {<<>>,
     <<"github", "rust">>,
     <<"github", "rust-lang", "rust">>,
     <<"github.com", "rust">>,
     <<"github.com", "RUST">>,
     <<"gitlab", "foo">>}

TopSizes == {0, 2}

PruneAges == {Hour, Year}

PrunePatterns == {"github.com", "/rust$", "^https://gitlab"}

\* Inputs of the ranking specification.
RankUrls ==
    {"https://github.com/rust-lang/rust",
     "https://github.com/microsoft/rust"}

RankPatterns == {<<"github.com", "rust">>, <<"github.com", "rust-lang", "rust">>}

\* Inputs of the specification of URL kinds: IP-address and domain hosts with
\* and without a path, a host:port text (an opaque URL to the parser), and
\* strings that do not parse.
HostUrlInputs ==
    {"http://10.0.0.1",
     "http://10.0.0.1/api",
     "https://example.com",
     "https://Example.COM/Docs",
     "localhost:8080",
     "",
     "example.com/docs"}

HostPatterns == {<<"example.com", "docs">>, <<"api">>}

\* Inputs of the pruning specification.
PruneUrls ==
    {"https://github.com/",
     "https://github.com/rust",
     "https://gitlab.com/rust-lang",
     "http://10.0.0.1/api"}

AnchoredPatterns ==
    {"^https://github\\.com/$", "^https://github", "/rust$",
     "^https://gitlab\\.com/rust_lang$", "^HTTPS://GITHUB", "/RUST$"}

UnanchoredPatterns == {"github\\.com", "rust", "GitHub", "rust_lang", "sourcehut"}

\* Addresses handed to open_address_impl: the empty address, complete URLs
\* with and without a scheme, a pattern that names the visited localhost
\* pages, and an address of slashes only.
OpenAddresses ==
    {"", "///", "http://localhost:8080/api", "localhost:3000/api",
     "github.com/rust-lang", "LocalHost/API"}

\* preferred_browser, an Option<&str>: <<>> for None, <<name>> for Some(name).
Browsers == {<<>>, <<"firefox">>}

\* classify_input on the addresses of the model.
classify_table == [address \in OpenAddresses |-> classify_input(address)]

FullUrlAddresses == {address \in OpenAddresses : classify_table[address].kind = "FullUrl"}

FuzzyAddresses == {address \in OpenAddresses : classify_table[address].kind = "FuzzyPattern"}

\* url.as_str() of the addresses classified FullUrl(url).
as_str_table == [address \in FullUrlAddresses |-> as_str(classify_table[address].url)]

OpenUrls == {as_str_table[address] : address \in FullUrlAddresses}

OpenPatterns == {classify_table[address].pattern : address \in FuzzyAddresses}

\* Inputs of the specification of lookups by a URL's own segments: the URLs of
\* every kind and a second URL with the segments of another.
FindUrls == HostUrlInputs \cup {"http://example.com/docs"}

AllUrls ==
    UrlInputs \cup RankUrls \cup HostUrlInputs \cup PruneUrls \cup OpenUrls \cup FindUrls

\* The segment sequences of the URLs, as patterns.
OwnPatterns == {extract_segments(url).segments : url \in FindUrls} \ {<<>>}

AllPatterns ==
    Patterns \cup RankPatterns \cup HostPatterns \cup OpenPatterns \cup OwnPatterns

AllPrunePatterns == PrunePatterns \cup AnchoredPatterns \cup UnanchoredPatterns

(***************************************************************************)
(* The pure functions above, tabulated once over the inputs of the model.  *)
(***************************************************************************)
extract_table == [url \in AllUrls |-> extract_segments(url)]

\* The segments column (JSON text) and the last_segment column of a URL's row.
segments_json_table ==
    [url \in AllUrls |-> json_to_string(extract_table[url].segments)]

last_segment_table ==
    [url \in AllUrls |-> get_last_segment(extract_table[url].segments)]

StoredSegmentTexts == {segments_json_table[url] : url \in AllUrls}

StoredLastSegments == {last_segment_table[url] : url \in AllUrls}

\* does_pattern_match_segments on a row's segments column, read back from JSON.
row_match_table ==
    [text \in StoredSegmentTexts, pattern \in AllPatterns |->
        does_pattern_match_segments(json_from_str(text), pattern)]

\* last_segment = ?1 COLLATE NOCASE
nocase_table ==
    [stored \in StoredLastSegments,
     pattern \in {p \in AllPatterns : p # <<>>} |->
        eq_ignore_ascii_case(stored, pattern[Len(pattern)])]

\* full_url LIKE ?1, with ?1 = convert_pattern_to_like(pattern)
like_table ==
    [pattern \in AllPrunePatterns, url \in AllUrls |->
        sql_like(convert_pattern_to_like(pattern), url)]

(***************************************************************************)
(* Operations of the Database trait                                        *)
(***************************************************************************)
IndexOfUrl(rows, url) ==
    LET hits == {i \in 1..Len(rows) : rows[i].full_url = url}
    IN  IF hits = {} THEN 0 ELSE MinOf(hits)

RECURSIVE TotalScore(_)
TotalScore(rows) == IF rows = <<>> THEN 0 ELSE Head(rows).score + TotalScore(Tail(rows))

Init ==
    /\ db = <<>>
    /\ now = Now0
    /\ last = [op |-> "open_at"]
    /\ visits = [url \in AllUrls |-> 0]
    /\ in_flight = [caller \in Callers |-> Idle]

\* The history variable after the rows became rows2: a URL without a row has
\* no counted visit.
visits_after(rows2, counted) ==
    [url \in AllUrls |-> IF IndexOfUrl(rows2, url) = 0 THEN 0 ELSE counted[url]]

\* Mutant: a plain INSERT without the conflict clause on a table without the
\* UNIQUE constraint.
upsert_always_insert(rows, url, segments_json, last_segment, timestamp_secs) ==
    Append(rows, [full_url |-> url, segments |-> segments_json,
                  last_segment |-> last_segment, score |-> 1,
                  last_accessed |-> timestamp_secs])

\* Mutant: the conflict clause leaves last_accessed as it was.
upsert_keep_last_accessed(rows, url, segments_json, last_segment, timestamp_secs) ==
    LET i == IndexOfUrl(rows, url)
    IN  IF i = 0
        THEN Append(rows, [full_url |-> url, segments |-> segments_json,
                           last_segment |-> last_segment, score |-> 1,
                           last_accessed |-> timestamp_secs])
        ELSE [rows EXCEPT ![i] = [@ EXCEPT !.score = @ + 1]]

\* Mutant: the conflict clause reads  score = score + 2.0.
upsert_add_two(rows, url, segments_json, last_segment, timestamp_secs) ==
    LET i == IndexOfUrl(rows, url)
    IN  IF i = 0
        THEN Append(rows, [full_url |-> url, segments |-> segments_json,
                           last_segment |-> last_segment, score |-> 1,
                           last_accessed |-> timestamp_secs])
        ELSE [rows EXCEPT ![i] = [@ EXCEPT !.score = @ + 2,
                                           !.last_accessed = timestamp_secs]]

\* Mutant: INSERT OR REPLACE on a table whose last_segment is UNIQUE too: the
\* rows that share the new row's last_segment are deleted.
upsert_replace_on_last_segment(rows, url, segments_json, last_segment, timestamp_secs) ==
    LET i == IndexOfUrl(rows, url)
        Other(r) == r.full_url = url \/ r.last_segment # last_segment
        kept == SelectSeq(rows, Other)
        j == IndexOfUrl(kept, url)
    IN  IF i = 0
        THEN Append(kept, [full_url |-> url, segments |-> segments_json,
                           last_segment |-> last_segment, score |-> 1,
                           last_accessed |-> timestamp_secs])
        ELSE [kept EXCEPT ![j] = [@ EXCEPT !.score = @ + 1,
                                           !.last_accessed = timestamp_secs]]

\* INSERT ... ON CONFLICT(full_url) DO UPDATE SET score = score + 1.0,
\* last_accessed = excluded.last_accessed
upsert(rows, url, segments_json, last_segment, timestamp_secs) ==
    LET i == IndexOfUrl(rows, url)
    IN  IF i = 0
        THEN Append(rows, [full_url |-> url, segments |-> segments_json,
                           last_segment |-> last_segment, score |-> 1,
                           last_accessed |-> timestamp_secs])
        ELSE [rows EXCEPT ![i] = [@ EXCEPT !.score = @ + 1,
                                           !.last_accessed = timestamp_secs]]

add_visit(url, timestamp) ==
    /\ TotalScore(db) < MaxVisits
    /\ IF ~extract_table[url].ok
       THEN /\ db' = db
            /\ last' = [op |-> "add_visit", url |-> url, timestamp |-> timestamp,
                        ret |-> "Err"]
            /\ UNCHANGED visits
       ELSE /\ db' = upsert(db, url, segments_json_table[url], last_segment_table[url],
                            timestamp)
            /\ last' = [op |-> "add_visit", url |-> url, timestamp |-> timestamp,
                        ret |-> "Ok"]
            /\ visits' = [visits EXCEPT ![url] = @ + 1]
    /\ UNCHANGED <<now, in_flight>>

\* Vec::sort_by(|a, b| b.1.partial_cmp(&a.1)): stable, descending on field 2.
RECURSIVE insert_desc(_, _)
insert_desc(sorted, x) ==
    IF sorted = <<>> THEN <<x>>
    ELSE IF Head(sorted)[2] >= x[2] THEN <<Head(sorted)>> \o insert_desc(Tail(sorted), x)
    ELSE <<x>> \o sorted

\* Mutant: the comparator's operands swapped, an ascending sort.
RECURSIVE insert_asc(_, _)
insert_asc(sorted, x) ==
    IF sorted = <<>> THEN <<x>>
    ELSE IF Head(sorted)[2] <= x[2] THEN <<Head(sorted)>> \o insert_asc(Tail(sorted), x)
    ELSE <<x>> \o sorted

RECURSIVE sort_ascending(_)
sort_ascending(q) ==
    IF q = <<>> THEN <<>>
    ELSE insert_asc(sort_ascending(SubSeq(q, 1, Len(q) - 1)), q[Len(q)])

RECURSIVE sort_by_frecency(_)
sort_by_frecency(q) ==
    IF q = <<>> THEN <<>>
    ELSE insert_desc(sort_by_frecency(SubSeq(q, 1, Len(q) - 1)), q[Len(q)])

\* Mutant: the query without its WHERE clause.
rows_without_prefilter(rows, pattern) == rows

\* The rows of  SELECT ... WHERE last_segment = ?1 COLLATE NOCASE
rows_with_last_segment(rows, pattern) ==
    LET Hit(r) == nocase_table[r.last_segment, pattern]
    IN  SelectSeq(rows, Hit)

\* The loop over the rows: a matching row gives (url, frecency, last_accessed).
RECURSIVE collect_matches(_, _, _)
collect_matches(rows, pattern, clock) ==
    IF rows = <<>> THEN <<>>
    ELSE LET row == Head(rows)
         IN  (IF row_match_table[row.segments, pattern]
              THEN <<<<row.full_url,
                       calculate_frecency(row.score, row.last_accessed, clock),
                       row.last_accessed>>>>
              ELSE <<>>)
             \o collect_matches(Tail(rows), pattern, clock)

fuzzy_match_result(rows, pattern, clock) ==
    IF pattern = <<>> THEN <<>>
    ELSE sort_by_frecency(collect_matches(rows_with_last_segment(rows, pattern), pattern, clock))

fuzzy_match(pattern) ==
    /\ last' = [op |-> "fuzzy_match", pattern |-> pattern,
                ret |-> fuzzy_match_result(db, pattern, now)]
    /\ UNCHANGED <<db, now, visits, in_flight>>

\* .into_iter().next().map(|(s, _, _)| s): <<url>> for Some(url), <<>> for None.
first_url(matches) == IF matches = <<>> THEN <<>> ELSE <<matches[1][1]>>

\* Mutant: the last element where the code takes the first.
last_url(matches) == IF matches = <<>> THEN <<>> ELSE <<matches[Len(matches)][1]>>

\* Mutant: the last element of the list taken for the first.
get_last_match_result(rows, pattern, clock) ==
    last_url(fuzzy_match_result(rows, pattern, clock))

get_best_match_result(rows, pattern, clock) ==
    first_url(fuzzy_match_result(rows, pattern, clock))

get_best_match(pattern) ==
    /\ last' = [op |-> "get_best_match", pattern |-> pattern,
                ret |-> get_best_match_result(db, pattern, now)]
    /\ UNCHANGED <<db, now, visits, in_flight>>

\* Mutant: ORDER BY score ASC.
score_asc_orders(rows) ==
    LET n == Len(rows)
        perms == {f \in [1..n -> 1..n] : \A i, j \in 1..n : i # j => f[i] # f[j]}
    IN  {[i \in 1..n |-> rows[f[i]]] :
            f \in {g \in perms : \A i \in 1..(n - 1) : rows[g[i]].score <= rows[g[i + 1]].score}}

\* The orders  ORDER BY score DESC  may return the rows in: SQL leaves the
\* order of rows with equal score open.
score_desc_orders(rows) ==
    LET n == Len(rows)
        perms == {f \in [1..n -> 1..n] : \A i, j \in 1..n : i # j => f[i] # f[j]}
    IN  {[i \in 1..n |-> rows[f[i]]] :
            f \in {g \in perms : \A i \in 1..(n - 1) : rows[g[i]].score >= rows[g[i + 1]].score}}

usage_entry(row) == <<row.full_url, row.score, row.last_accessed>>

get_highest_usage_urls(size) ==
    /\ \E ordered \in score_desc_orders(db) :
          last' = [op |-> "get_highest_usage_urls", size |-> size,
                   ret |-> [i \in 1..(IF size < Len(db) THEN size ELSE Len(db)) |->
                               usage_entry(ordered[i])]]
    /\ UNCHANGED <<db, now, visits, in_flight>>

\* Mutant: DELETE FROM urls WHERE last_accessed <= ?1
prune_by_age_inclusive(older_than_secs) ==
    LET cutoff_time == now - older_than_secs
        Keep(r) == ~(r.last_accessed <= cutoff_time)
    IN  /\ db' = SelectSeq(db, Keep)
        /\ last' = [op |-> "prune_by_age", older_than_secs |-> older_than_secs,
                    ret |-> Len(db) - Len(SelectSeq(db, Keep))]
        /\ visits' = visits_after(SelectSeq(db, Keep), visits)
        /\ UNCHANGED <<now, in_flight>>

prune_by_age(older_than_secs) ==
    LET cutoff_time == now - older_than_secs
        Keep(r) == ~(r.last_accessed < cutoff_time)
    IN  /\ db' = SelectSeq(db, Keep)
        /\ last' = [op |-> "prune_by_age", older_than_secs |-> older_than_secs,
                    ret |-> Len(db) - Len(SelectSeq(db, Keep))]
        /\ visits' = visits_after(SelectSeq(db, Keep), visits)
        /\ UNCHANGED <<now, in_flight>>

prune_by_url_pattern(pattern) ==
    LET Keep(r) == ~like_table[pattern, r.full_url]
    IN  /\ db' = SelectSeq(db, Keep)
        /\ last' = [op |-> "prune_by_url_pattern", pattern |-> pattern,
                    ret |-> Len(db) - Len(SelectSeq(db, Keep))]
        /\ visits' = visits_after(SelectSeq(db, Keep), visits)
        /\ UNCHANGED <<now, in_flight>>

\* An hour passes on the clock.
Tick ==
    /\ now < Now0 + MaxTicks * Hour
    /\ now' = now + Hour
    /\ last' = [op |-> "tick"]
    /\ UNCHANGED <<db, visits, in_flight>>

(***************************************************************************)
(* open_address_impl: the address is opened in the browser and the visit   *)
(* recorded.  The store and the opener are trait objects: a store call may *)
(* fail with the error of the database, the opener with an I/O error.      *)
(***************************************************************************)
\* What open_address_impl returns: Ok(()) or the error it ends with.
EmptyAddressError == "provided address must be a non-empty string"

NoMatchError == "No matching URL found in history"

StorageError == "rusqlite::Error"

LaunchError == "std::io::Error"

\* The store call that fails in one run of open_address_impl, if any.
StoreFaults == {"none", "get_best_match", "add_visit"}

\* Mutant: the opener is called with None for the browser.
visit_then_open_default(address, preferred_browser, calls, url, fault, launched) ==
    IF fault = "add_visit" \/ ~extract_table[url].ok
    THEN /\ db' = db
         /\ visits' = visits
         /\ last' = [op |-> "open_address_impl", address |-> address,
                     preferred_browser |-> preferred_browser,
                     calls |-> Append(calls, [fn |-> "add_visit", url |-> url,
                                              timestamp |-> now, ok |-> FALSE]),
                     ret |-> StorageError]
    ELSE /\ db' = upsert(db, url, segments_json_table[url], last_segment_table[url], now)
         /\ visits' = [visits EXCEPT ![url] = @ + 1]
         /\ last' = [op |-> "open_address_impl", address |-> address,
                     preferred_browser |-> preferred_browser,
                     calls |-> calls \o <<[fn |-> "add_visit", url |-> url,
                                           timestamp |-> now, ok |-> TRUE],
                                          [fn |-> "open", url |-> url,
                                           browser |-> <<>>, ok |-> launched]>>,
                     ret |-> IF launched THEN "Ok" ELSE LaunchError]

\* Mutant: the browser is opened first and the visit recorded after it.
open_then_visit(address, preferred_browser, calls, url, fault, launched) ==
    IF ~launched
    THEN /\ db' = db
         /\ visits' = visits
         /\ last' = [op |-> "open_address_impl", address |-> address,
                     preferred_browser |-> preferred_browser,
                     calls |-> Append(calls, [fn |-> "open", url |-> url,
                                              browser |-> preferred_browser,
                                              ok |-> FALSE]),
                     ret |-> LaunchError]
    ELSE IF fault = "add_visit" \/ ~extract_table[url].ok
    THEN /\ db' = db
         /\ visits' = visits
         /\ last' = [op |-> "open_address_impl", address |-> address,
                     preferred_browser |-> preferred_browser,
                     calls |-> calls \o <<[fn |-> "open", url |-> url,
                                           browser |-> preferred_browser,
                                           ok |-> TRUE],
                                          [fn |-> "add_visit", url |-> url,
                                           timestamp |-> now, ok |-> FALSE]>>,
                     ret |-> StorageError]
    ELSE /\ db' = upsert(db, url, segments_json_table[url], last_segment_table[url], now)
         /\ visits' = [visits EXCEPT ![url] = @ + 1]
         /\ last' = [op |-> "open_address_impl", address |-> address,
                     preferred_browser |-> preferred_browser,
                     calls |-> calls \o <<[fn |-> "open", url |-> url,
                                           browser |-> preferred_browser,
                                           ok |-> TRUE],
                                          [fn |-> "add_visit", url |-> url,
                                           timestamp |-> now, ok |-> TRUE]>>,
                     ret |-> "Ok"]

\* db.add_visit(url, SystemTime::now())?; opener.open(url, preferred_browser)?; Ok(())
visit_then_open(address, preferred_browser, calls, url, fault, launched) ==
    IF fault = "add_visit" \/ ~extract_table[url].ok
    THEN /\ db' = db
         /\ visits' = visits
         /\ last' = [op |-> "open_address_impl", address |-> address,
                     preferred_browser |-> preferred_browser,
                     calls |-> Append(calls, [fn |-> "add_visit", url |-> url,
                                              timestamp |-> now, ok |-> FALSE]),
                     ret |-> StorageError]
    ELSE /\ db' = upsert(db, url, segments_json_table[url], last_segment_table[url], now)
         /\ visits' = [visits EXCEPT ![url] = @ + 1]
         /\ last' = [op |-> "open_address_impl", address |-> address,
                     preferred_browser |-> preferred_browser,
                     calls |-> calls \o <<[fn |-> "add_visit", url |-> url,
                                           timestamp |-> now, ok |-> TRUE],
                                          [fn |-> "open", url |-> url,
                                           browser |-> preferred_browser,
                                           ok |-> launched]>>,
                     ret |-> IF launched THEN "Ok" ELSE LaunchError]

\* Mutant: the arm None of the match returns Ok(()).
open_best_match_or_nothing(address, preferred_browser, pattern, best_match, fault, launched) ==
    IF fault = "get_best_match"
    THEN /\ db' = db
         /\ visits' = visits
         /\ last' = [op |-> "open_address_impl", address |-> address,
                     preferred_browser |-> preferred_browser,
                     calls |-> <<[fn |-> "get_best_match", pattern |-> pattern,
                                  ok |-> FALSE, ret |-> <<>>]>>,
                     ret |-> StorageError]
    ELSE IF best_match = <<>>
    THEN /\ db' = db
         /\ visits' = visits
         /\ last' = [op |-> "open_address_impl", address |-> address,
                     preferred_browser |-> preferred_browser,
                     calls |-> <<[fn |-> "get_best_match", pattern |-> pattern,
                                  ok |-> TRUE, ret |-> <<>>]>>,
                     ret |-> "Ok"]
    ELSE visit_then_open(address, preferred_browser,
                         <<[fn |-> "get_best_match", pattern |-> pattern,
                            ok |-> TRUE, ret |-> best_match]>>,
                         best_match[1], fault, launched)

\* Mutant: the arm Some(best_match) opens the page without recording the visit.
open_best_match_unrecorded(address, preferred_browser, pattern, best_match, fault, launched) ==
    IF fault = "get_best_match"
    THEN /\ db' = db
         /\ visits' = visits
         /\ last' = [op |-> "open_address_impl", address |-> address,
                     preferred_browser |-> preferred_browser,
                     calls |-> <<[fn |-> "get_best_match", pattern |-> pattern,
                                  ok |-> FALSE, ret |-> <<>>]>>,
                     ret |-> StorageError]
    ELSE IF best_match = <<>>
    THEN /\ db' = db
         /\ visits' = visits
         /\ last' = [op |-> "open_address_impl", address |-> address,
                     preferred_browser |-> preferred_browser,
                     calls |-> <<[fn |-> "get_best_match", pattern |-> pattern,
                                  ok |-> TRUE, ret |-> <<>>]>>,
                     ret |-> NoMatchError]
    ELSE /\ db' = db
         /\ visits' = visits
         /\ last' = [op |-> "open_address_impl", address |-> address,
                     preferred_browser |-> preferred_browser,
                     calls |-> <<[fn |-> "get_best_match", pattern |-> pattern,
                                  ok |-> TRUE, ret |-> best_match],
                                 [fn |-> "open", url |-> best_match[1],
                                  browser |-> preferred_browser, ok |-> launched]>>,
                     ret |-> IF launched THEN "Ok" ELSE LaunchError]

\* The arm InputType::FuzzyPattern(segments): best_match is what
\* db.get_best_match(&segments) finds, <<>> for None.
open_best_match(address, preferred_browser, pattern, best_match, fault, launched) ==
    IF fault = "get_best_match"
    THEN /\ db' = db
         /\ visits' = visits
         /\ last' = [op |-> "open_address_impl", address |-> address,
                     preferred_browser |-> preferred_browser,
                     calls |-> <<[fn |-> "get_best_match", pattern |-> pattern,
                                  ok |-> FALSE, ret |-> <<>>]>>,
                     ret |-> StorageError]
    ELSE IF best_match = <<>>
    THEN /\ db' = db
         /\ visits' = visits
         /\ last' = [op |-> "open_address_impl", address |-> address,
                     preferred_browser |-> preferred_browser,
                     calls |-> <<[fn |-> "get_best_match", pattern |-> pattern,
                                  ok |-> TRUE, ret |-> <<>>]>>,
                     ret |-> NoMatchError]
    ELSE visit_then_open(address, preferred_browser,
                         <<[fn |-> "get_best_match", pattern |-> pattern,
                            ok |-> TRUE, ret |-> best_match]>>,
                         best_match[1], fault, launched)

\* match classify_input(address) { FullUrl(url) => .., FuzzyPattern(segments) => .. }
open_classified(address, preferred_browser, fault, launched) ==
    IF classify_table[address].kind = "FullUrl"
    THEN visit_then_open(address, preferred_browser, <<>>, as_str_table[address],
                         fault, launched)
    ELSE open_best_match(address, preferred_browser, classify_table[address].pattern,
                         get_best_match_result(db, classify_table[address].pattern, now),
                         fault, launched)

\* Mutant: the function without its check of the empty address.
open_address_unchecked(address, preferred_browser, fault, launched) ==
    /\ TotalScore(db) < MaxVisits
    /\ open_classified(address, preferred_browser, fault, launched)
    /\ UNCHANGED <<now, in_flight>>

open_address_impl(address, preferred_browser, fault, launched) ==
    /\ TotalScore(db) < MaxVisits
    /\ IF address = ""
       THEN /\ db' = db
            /\ visits' = visits
            /\ last' = [op |-> "open_address_impl", address |-> address,
                        preferred_browser |-> preferred_browser,
                        calls |-> <<>>, ret |-> EmptyAddressError]
       ELSE open_classified(address, preferred_browser, fault, launched)
    /\ UNCHANGED <<now, in_flight>>

\* The store under every operation of the trait; the clock stands still.
Next ==
    \/ \E url \in UrlInputs, timestamp \in {OldTime, now} : add_visit(url, timestamp)
    \/ \E pattern \in Patterns : fuzzy_match(pattern)
    \/ \E pattern \in Patterns : get_best_match(pattern)
    \/ \E size \in TopSizes : get_highest_usage_urls(size)
    \/ \E older_than_secs \in PruneAges : prune_by_age(older_than_secs)
    \/ \E pattern \in PrunePatterns : prune_by_url_pattern(pattern)

Spec == Init /\ [][Next]_vars

\* Ranking and ageing: two URLs that match the same pattern, visited at times
\* on both sides of every recency step, while the clock advances.
NextRank ==
    \/ \E url \in RankUrls,
          timestamp \in {OldTime, now - Week, now - Day, now - Hour, now} :
          add_visit(url, timestamp)
    \/ \E pattern \in RankPatterns : fuzzy_match(pattern)
    \/ \E pattern \in RankPatterns : get_best_match(pattern)
    \/ \E older_than_secs \in {Hour, Day} : prune_by_age(older_than_secs)
    \/ Tick

SpecRank == Init /\ [][NextRank]_vars

\* The store under URLs of every kind the parser accepts or rejects.
NextUrls ==
    \/ \E url \in HostUrlInputs, timestamp \in {OldTime, now} : add_visit(url, timestamp)
    \/ \E pattern \in HostPatterns : fuzzy_match(pattern)
    \/ \E older_than_secs \in {Hour} : prune_by_age(older_than_secs)

SpecUrls == Init /\ [][NextUrls]_vars

\* The store under add_visit and prune_by_url_pattern.
NextPrune ==
    \/ \E url \in PruneUrls : add_visit(url, now)
    \/ \E pattern \in AnchoredPatterns \cup UnanchoredPatterns : prune_by_url_pattern(pattern)

SpecPrune == Init /\ [][NextPrune]_vars

\* URLs recorded, pruned and looked up by the segments of a URL.
NextFind ==
    \/ \E url \in FindUrls, timestamp \in {OldTime, now} : add_visit(url, timestamp)
    \/ \E pattern \in OwnPatterns : fuzzy_match(pattern)
    \/ \E pattern \in OwnPatterns : get_best_match(pattern)
    \/ \E older_than_secs \in {Hour} : prune_by_age(older_than_secs)

SpecFind == Init /\ [][NextFind]_vars

(***************************************************************************)
(* add_visit by callers that run at the same time, each on a connection of *)
(* its own to the same database file.  A call first parses its URL and     *)
(* reads the clock, on its own; its one statement then runs in the store   *)
(* as a whole, under the lock of the file, or fails because the file is    *)
(* locked by another connection.                                           *)
(***************************************************************************)
ConcurrentUrls == RankUrls \cup {""}

\* Mutant: the statement decides between insert and update on the rows as they
\* were when the call began.
rows_at_begin(seen, stored) == seen

\* The rows the statement works on: the table as it is when the statement runs.
rows_at_execute(seen, stored) == stored

\* extract_segments, get_last_segment, serde_json::to_string and the timestamp:
\* the part of add_visit before the statement.
begin_add_visit(caller, url) ==
    /\ in_flight[caller].pc = "idle"
    /\ TotalScore(db) + Cardinality({c \in Callers : in_flight[c].pc # "idle"}) < MaxVisits
    /\ IF ~extract_table[url].ok
       THEN /\ in_flight' = in_flight
            /\ last' = [op |-> "add_visit", caller |-> caller, url |-> url,
                        seen |-> db, ret |-> "Err"]
       ELSE /\ in_flight' = [in_flight EXCEPT ![caller] =
                                [pc |-> "execute", url |-> url, timestamp |-> now,
                                 seen |-> db]]
            /\ last' = [op |-> "begin_add_visit", caller |-> caller, url |-> url]
    /\ UNCHANGED <<db, now, visits>>

\* self.conn.execute(INSERT ... ON CONFLICT(full_url) DO UPDATE ...) succeeds.
execute_add_visit(caller) ==
    /\ in_flight[caller].pc = "execute"
    /\ db' = upsert(rows_at_execute(in_flight[caller].seen, db), in_flight[caller].url,
                    segments_json_table[in_flight[caller].url],
                    last_segment_table[in_flight[caller].url],
                    in_flight[caller].timestamp)
    /\ visits' = [visits EXCEPT ![in_flight[caller].url] = @ + 1]
    /\ last' = [op |-> "add_visit", caller |-> caller, url |-> in_flight[caller].url,
                seen |-> in_flight[caller].seen, ret |-> "Ok"]
    /\ in_flight' = [in_flight EXCEPT ![caller] = Idle]
    /\ UNCHANGED now

\* self.conn.execute(..) fails: the file stayed locked by another connection.
busy_add_visit(caller) ==
    /\ in_flight[caller].pc = "execute"
    /\ \E other \in Callers \ {caller} : in_flight[other].pc = "execute"
    /\ last' = [op |-> "add_visit", caller |-> caller, url |-> in_flight[caller].url,
                seen |-> in_flight[caller].seen, ret |-> "Err"]
    /\ in_flight' = [in_flight EXCEPT ![caller] = Idle]
    /\ UNCHANGED <<db, now, visits>>

NextConcurrent ==
    \/ \E caller \in Callers, url \in ConcurrentUrls : begin_add_visit(caller, url)
    \/ \E caller \in Callers : execute_add_visit(caller)
    \/ \E caller \in Callers : busy_add_visit(caller)
    \/ Tick

SpecConcurrent == Init /\ [][NextConcurrent]_vars

\* Addresses opened one after another while the clock advances.
NextOpen ==
    \/ \E address \in OpenAddresses, preferred_browser \in Browsers,
          fault \in StoreFaults, launched \in BOOLEAN :
          open_address_impl(address, preferred_browser, fault, launched)
    \/ Tick

SpecOpen == Init /\ [][NextOpen]_vars

(***************************************************************************)
(* The pure functions on their own: Init draws a call, the action makes it.*)
(***************************************************************************)
\* Bound of the model: the longest segment sequence and pattern drawn.
MaxSegments == 3

MatchTokens == {"gh", "GH", "git", "github"}

TokenSeqs == UNION {[1..k -> MatchTokens] : k \in 0..MaxSegments}

ExtractSchemes == {"https://", "http://", "HTTPS://", ""}

ExtractHosts == {"github.com", "GitHub.COM", "api.example.com", "example.com", "10.0.0.1"}

ExtractPaths == {"", "/", "/rust-lang/rust", "/rust-lang/rust/", "/Rust-Lang/RUST", "/search"}

ExtractSuffixes == {"", "?q=rust", "#readme", "?q=rust#results"}

ExtractCalls ==
    {[op |-> "call", fn |-> "extract_segments", scheme |-> sc, host |-> h, path |-> pa,
      suffix |-> su, input |-> sc \o h \o pa \o su] :
        sc \in ExtractSchemes, h \in ExtractHosts, pa \in ExtractPaths, su \in ExtractSuffixes}
    \cup {[op |-> "call", fn |-> "extract_segments", scheme |-> "", host |-> "", path |-> "",
           suffix |-> "", input |-> ""]}

MatchCalls ==
    {[op |-> "call", fn |-> "does_pattern_match_segments", url_segments |-> us,
      pattern |-> pt] : us \in TokenSeqs, pt \in TokenSeqs}

\* Seconds since the last visit: each step of the multiplier from both sides.
ElapsedTimes ==
    {-1, 0, Hour - 1, Hour, Hour + 1, Day - 1, Day, Day + 1, Week - 1, Week, Week + 1, Year}

FrecencyScores == {1, 2, 5}

FrecencyCalls ==
    {[op |-> "call", fn |-> "calculate_frecency", score |-> sc,
      last_accessed |-> clock - e, clock |-> clock] :
        sc \in FrecencyScores, e \in ElapsedTimes, clock \in {Now0, Now0 + Day}}

\* Addresses handed to classify_input: the tests' addresses, host:port texts
\* with ordinary, default and out-of-range ports, and texts built of slashes
\* and tokens.
ClassifyLeads == {"", "/", "//"}

ClassifyFirsts == {"", "gh", "github", "GitHub", "localhost:80"}

ClassifySeparators == {"/", "//"}

ClassifySeconds == {"", "rust", "Rust-Lang"}

ClassifyTrails == {"", "/"}

ClassifyAddresses ==
    {"https://github.com/rust-lang/rust", "http://localhost:8080/api",
     "https://GitHub.COM/Rust-Lang", "github.com/rust-lang/rust",
     "example.com:3000/path", "github.com/search?q=rust#top", "GitHub.COM/Rust-Lang",
     "localhost:8080", "192.168.1.1:3000/api", "localhost:80", "example.com:80",
     "localhost:99999", "localhost", "github", "github/rust/issues", "://github"}
    \cup {le \o fi \o se \o sn \o tr :
            le \in ClassifyLeads, fi \in ClassifyFirsts, se \in ClassifySeparators,
            sn \in ClassifySeconds, tr \in ClassifyTrails}

ClassifyCalls ==
    {[op |-> "call", fn |-> "classify_input", address |-> a] : a \in ClassifyAddresses}

InitFn ==
    /\ db = <<>>
    /\ now = Now0
    /\ visits = [url \in AllUrls |-> 0]
    /\ in_flight = [caller \in Callers |-> Idle]
    /\ last \in ExtractCalls \cup MatchCalls \cup FrecencyCalls \cup ClassifyCalls

call_extract_segments ==
    /\ last.op = "call" /\ last.fn = "extract_segments"
    /\ last' = [op |-> "ret", fn |-> "extract_segments", scheme |-> last.scheme,
                host |-> last.host, path |-> last.path, suffix |-> last.suffix,
                input |-> last.input, ret |-> extract_segments(last.input)]
    /\ UNCHANGED <<db, now, visits, in_flight>>

call_does_pattern_match_segments ==
    /\ last.op = "call" /\ last.fn = "does_pattern_match_segments"
    /\ last' = [op |-> "ret", fn |-> "does_pattern_match_segments",
                url_segments |-> last.url_segments, pattern |-> last.pattern,
                ret |-> does_pattern_match_segments(last.url_segments, last.pattern)]
    /\ UNCHANGED <<db, now, visits, in_flight>>

call_calculate_frecency ==
    /\ last.op = "call" /\ last.fn = "calculate_frecency"
    /\ last' = [op |-> "ret", fn |-> "calculate_frecency", score |-> last.score,
                last_accessed |-> last.last_accessed, clock |-> last.clock,
                ret |-> calculate_frecency(last.score, last.last_accessed, last.clock)]
    /\ UNCHANGED <<db, now, visits, in_flight>>

call_classify_input ==
    /\ last.op = "call" /\ last.fn = "classify_input"
    /\ last' = [op |-> "ret", fn |-> "classify_input", address |-> last.address,
                ret |-> classify_input(last.address)]
    /\ UNCHANGED <<db, now, visits, in_flight>>

NextFn ==
    \/ call_extract_segments
    \/ call_does_pattern_match_segments
    \/ call_calculate_frecency
    \/ call_classify_input

SpecFn == InitFn /\ [][NextFn]_vars

(***************************************************************************)
(* Properties                                                              *)
(***************************************************************************)
RowsOf(rows, url) == {i \in 1..Len(rows) : rows[i].full_url = url}

RowOf(rows, url) == rows[IndexOfUrl(rows, url)]

Urls(rows) == {rows[i].full_url : i \in 1..Len(rows)}

\* C1: add_visit is an upsert.  A successful call for a URL without a record
\* creates exactly one record with score 1.0 and last_accessed equal to the
\* call's timestamp; a successful call for a URL with a record adds exactly 1.0
\* to its score, sets last_accessed to the call's timestamp and creates no
\* second record.  Hence a URL visited n times since it last had no record has
\* exactly one record, with score n.
C1_AddVisitIsUpsert ==
    /\ [][(last'.op = "add_visit" /\ last'.ret = "Ok") =>
            LET url == last'.url
            IN  /\ Cardinality(RowsOf(db', url)) = 1
                /\ RowOf(db', url).last_accessed = last'.timestamp
                /\ IF RowsOf(db, url) = {}
                   THEN /\ Len(db') = Len(db) + 1
                        /\ RowOf(db', url).score = 1
                   ELSE /\ Len(db') = Len(db)
                        /\ RowOf(db', url).score = RowOf(db, url).score + 1]_vars
    /\ [](\A url \in AllUrls :
            IF visits[url] = 0 THEN RowsOf(db, url) = {}
            ELSE /\ Cardinality(RowsOf(db, url)) = 1
                 /\ RowOf(db, url).score = visits[url])

\* C1 witness: a third successful visit has just updated a record.
C1_Witness ==
    /\ last.op = "add_visit" /\ last.ret = "Ok"
    /\ visits[last.url] = 3
    /\ RowOf(db, last.url).score = 3

GithubRustLang == "https://github.com/rust-lang/rust"

GithubMicrosoft == "https://github.com/microsoft/rust"

GitlabRustLang == "https://gitlab.com/rust-lang/rust"

ResultUrls(ret) == {ret[j][1] : j \in 1..Len(ret)}

\* C2: a pattern made of a recorded URL's host label and its final path segment,
\* with some of its path segments in between, is resolved to that URL: with the
\* two github.com URLs and the gitlab.com URL recorded, fuzzy_match([github, rust])
\* returns exactly the two github.com URLs and
\* fuzzy_match([github, rust-lang, rust]) returns exactly the rust-lang one.
C2_HostLabelPatternResolves ==
    (/\ last.op = "fuzzy_match"
     /\ {GithubRustLang, GithubMicrosoft, GitlabRustLang} \subseteq Urls(db))
    => /\ last.pattern = <<"github", "rust">> =>
            /\ Len(last.ret) = 2
            /\ ResultUrls(last.ret) = {GithubRustLang, GithubMicrosoft}
       /\ last.pattern = <<"github", "rust-lang", "rust">> =>
            /\ Len(last.ret) = 1
            /\ ResultUrls(last.ret) = {GithubRustLang}

\* The label one position before the top-level suffix of a host.
registrable_host_label(host) ==
    LET labels == split(to_lowercase(host), ".")
    IN  IF Len(labels) >= 2 THEN labels[Len(labels) - 1] ELSE labels[1]

\* C3: for every parsable URL extract_segments returns the lowercased
\* registrable host label followed by each non-empty path segment lowercased in
\* order; query and fragment contribute nothing, a trailing slash adds no token
\* and a URL without a path gives the host label alone.
C3_ExtractSegmentsAsSpecified ==
    (/\ last.op = "ret" /\ last.fn = "extract_segments"
     /\ last.scheme # "")
    => /\ last.ret.ok
       /\ last.ret.segments =
            <<registrable_host_label(last.host)>>
            \o MapLower(SelectSeq(split(last.path, "/"), NonEmpty))

\* The pattern's tokens occur in the stored sequence at strictly increasing
\* positions, compared by string equality.
IsOrderedSubsequence(pattern, stored) ==
    \E f \in [1..Len(pattern) -> 1..Len(stored)] :
        /\ \A k \in 1..(Len(pattern) - 1) : f[k] < f[k + 1]
        /\ \A k \in 1..Len(pattern) : stored[f[k]] = pattern[k]

\* The anchor rule: equality without regard to case for a token of fewer than 3
\* characters, the fuzzy test for a longer one.
AnchorMatches(token, segment) ==
    IF Len(token) < 3 THEN to_lowercase(token) = to_lowercase(segment)
    ELSE skim_fuzzy_match(segment, token)

\* C4: does_pattern_match_segments is true exactly when the pattern is empty, or
\* the first pattern token anchor-matches the first stored segment, the last
\* pattern token anchor-matches the last stored segment and every pattern token
\* occurs in the stored sequence in the same relative order under string
\* equality.  The empty pattern matches every stored sequence, the empty one too.
C4_MatchesIff ==
    (last.op = "ret" /\ last.fn = "does_pattern_match_segments")
    => LET stored == last.url_segments
           pattern == last.pattern
       IN  last.ret <=>
             \/ pattern = <<>>
             \/ /\ stored # <<>>
                /\ AnchorMatches(pattern[1], stored[1])
                /\ AnchorMatches(pattern[Len(pattern)], stored[Len(stored)])
                /\ IsOrderedSubsequence(pattern, stored)

\* C4 witness: a match in which the first anchor is decided by the fuzzy test
\* and the ordering scan skips a stored segment.
C4_Witness ==
    /\ last.op = "ret" /\ last.fn = "does_pattern_match_segments"
    /\ last.ret
    /\ Len(last.pattern) = 2 /\ Len(last.url_segments) = 3
    /\ last.pattern[1] # last.url_segments[1]

\* The record passes the last-segment filter and the pattern matcher.
Qualifies(row, pattern) ==
    /\ to_lowercase(row.last_segment) = to_lowercase(pattern[Len(pattern)])
    /\ does_pattern_match_segments(json_from_str(row.segments), pattern)

\* C5: for a non-empty pattern fuzzy_match returns exactly one entry for each
\* record whose last_segment equals the pattern's last token ignoring case and
\* whose segments satisfy the pattern matcher, and no entry for any other
\* record; each entry carries the record's URL, frecency and last_accessed.
\* For the empty pattern, and when nothing matches, it returns the empty list.
C5_FuzzyMatchReturnsTheMatches ==
    last.op = "fuzzy_match" =>
        IF last.pattern = <<>> THEN last.ret = <<>>
        ELSE /\ \A i \in 1..Len(db) :
                  LET entries == {j \in 1..Len(last.ret) : last.ret[j][1] = db[i].full_url}
                  IN  IF Qualifies(db[i], last.pattern)
                      THEN /\ Cardinality(entries) = 1
                           /\ \A j \in entries :
                                last.ret[j] =
                                  <<db[i].full_url,
                                    calculate_frecency(db[i].score, db[i].last_accessed, now),
                                    db[i].last_accessed>>
                      ELSE entries = {}
             /\ ResultUrls(last.ret) \subseteq Urls(db)

\* C5 witness: of three records with the pattern's last token as last_segment
\* ignoring case, the call returned one and left out the others.
C5_Witness ==
    /\ last.op = "fuzzy_match"
    /\ Len(last.ret) = 2
    /\ \E i \in 1..Len(db) :
          /\ ~Qualifies(db[i], last.pattern)
          /\ does_pattern_match_segments(json_from_str(db[i].segments), last.pattern)
    /\ \E i \in 1..Len(db) :
          /\ ~Qualifies(db[i], last.pattern)
          /\ to_lowercase(db[i].last_segment) = to_lowercase(last.pattern[Len(last.pattern)])

\* C6: the list fuzzy_match returns is ordered by frecency descending; of two
\* matching records with equal score, one visited within the last hour is
\* placed before one last visited more than a week ago.
C6_OrderedByFrecency ==
    last.op = "fuzzy_match" =>
        /\ \A i, j \in 1..Len(last.ret) : i < j => last.ret[i][2] >= last.ret[j][2]
        /\ \A a, b \in 1..Len(db) :
              (/\ db[a].score = db[b].score
               /\ now - db[a].last_accessed < Hour
               /\ now - db[b].last_accessed > Week
               /\ {db[a].full_url, db[b].full_url} \subseteq ResultUrls(last.ret))
              => \A i, j \in 1..Len(last.ret) :
                    (last.ret[i][1] = db[a].full_url /\ last.ret[j][1] = db[b].full_url)
                    => i < j

\* C6 witness: of two matching rows with equal score the first was visited
\* more than a week ago and the second within the hour, and the sort put the
\* second first.
C6_Witness ==
    /\ last.op = "fuzzy_match"
    /\ Len(db) = 2 /\ Len(last.ret) = 2
    /\ db[1].score = 2 /\ db[2].score = 2
    /\ now - db[1].last_accessed > Week
    /\ now - db[2].last_accessed < Hour
    /\ last.ret[1][1] = db[2].full_url
    /\ last.ret[1][2] > last.ret[2][2]

\* C7: get_best_match returns None exactly when fuzzy_match of the pattern is
\* empty, and otherwise the URL of its first entry, which is a matching record
\* whose frecency no other matching record exceeds.
C7_BestMatchIsFirstMatch ==
    last.op = "get_best_match" =>
        LET matches == fuzzy_match_result(db, last.pattern, now)
            Frecency(row) == calculate_frecency(row.score, row.last_accessed, now)
        IN  /\ last.ret = <<>> <=> matches = <<>>
            /\ matches # <<>> =>
                 /\ last.ret = <<matches[1][1]>>
                 /\ \E i \in 1..Len(db) :
                       /\ db[i].full_url = last.ret[1]
                       /\ Qualifies(db[i], last.pattern)
                       /\ \A k \in 1..Len(db) :
                             Qualifies(db[k], last.pattern) => Frecency(db[k]) <= Frecency(db[i])

\* C7 witness: the best match is not the first of two matching rows.
C7_Witness ==
    /\ last.op = "get_best_match"
    /\ last.ret # <<>>
    /\ Len(db) >= 2
    /\ Qualifies(db[1], last.pattern)
    /\ Qualifies(db[2], last.pattern)
    /\ last.ret[1] = db[2].full_url

\* C8: last_accessed never decreases across successful add_visit calls on the
\* record's URL: after each update it is at least what it was before.
C8_LastAccessedNeverDecreases ==
    [][(last'.op = "add_visit" /\ last'.ret = "Ok" /\ RowsOf(db, last'.url) # {}) =>
          RowOf(db', last'.url).last_accessed >= RowOf(db, last'.url).last_accessed]_vars

\* C8 amended: after each successful add_visit on a URL that has a record the
\* record's last_accessed equals the call's timestamp, so it is at least what
\* it was before whenever the call's timestamp is.
C8_LastAccessedIsCallTimestamp ==
    [][(last'.op = "add_visit" /\ last'.ret = "Ok" /\ RowsOf(db, last'.url) # {}) =>
          /\ RowOf(db', last'.url).last_accessed = last'.timestamp
          /\ last'.timestamp >= RowOf(db, last'.url).last_accessed =>
                RowOf(db', last'.url).last_accessed >= RowOf(db, last'.url).last_accessed]_vars

\* C8 witness: a repeat visit at the clock's time, after any earlier time.
C8_Witness ==
    /\ last.op = "add_visit" /\ last.ret = "Ok"
    /\ last.timestamp = now
    /\ RowOf(db, last.url).score >= 2
    /\ RowOf(db, last.url).last_accessed = now

\* C9: every record has score >= 1.0, and while a record exists its score never
\* decreases: it changes only by +1.0, on a visit to its URL.
C9_ScoreAtLeastOneAndGrowing ==
    /\ [](\A i \in 1..Len(db) : db[i].score >= 1)
    /\ [][\A url \in Urls(db) \cap Urls(db') :
            /\ RowOf(db', url).score >= RowOf(db, url).score
            /\ RowOf(db', url).score # RowOf(db, url).score =>
                 /\ RowOf(db', url).score = RowOf(db, url).score + 1
                 /\ last'.op = "add_visit" /\ last'.url = url]_vars

\* C9 witness: a prune removed a record and left one with a score above 1.
C9_Witness ==
    /\ last.op \in {"prune_by_age", "prune_by_url_pattern"}
    /\ last.ret >= 1
    /\ \E i \in 1..Len(db) : db[i].score >= 2

\* C10: a record leaves the store only through prune_by_age or
\* prune_by_url_pattern: add_visit, fuzzy_match, get_best_match and
\* get_highest_usage_urls remove no record, and the three queries leave the
\* records and all their fields unchanged.
C10_OnlyPruningRemoves ==
    [][/\ last'.op \in {"add_visit", "fuzzy_match", "get_best_match", "get_highest_usage_urls"}
          => Urls(db) \subseteq Urls(db')
       /\ last'.op \in {"fuzzy_match", "get_best_match", "get_highest_usage_urls"}
          => db' = db
       /\ ~(Urls(db) \subseteq Urls(db'))
          => last'.op \in {"prune_by_age", "prune_by_url_pattern"}]_vars

\* C10 witness: a visit created a record next to two others that share its
\* last_segment.
C10_Witness ==
    /\ last.op = "add_visit" /\ last.ret = "Ok"
    /\ Len(db) = 3
    /\ db[3].full_url = last.url
    /\ db[1].last_segment = db[3].last_segment
    /\ db[2].last_segment = db[3].last_segment

\* The parsed URL has a host or a path.
has_host_or_path(url) == url.hostKind # "none" \/ url.path # ""

\* C11: every record stored by add_visit has a non-empty segments sequence
\* whenever its URL has a host or a path component, whether the host is a domain
\* name or an IP address.
C11_SegmentsNonEmpty ==
    \A i \in 1..Len(db) :
        has_host_or_path(ParseUrl(db[i].full_url)) => json_from_str(db[i].segments) # <<>>

\* The cached token is the final element of the sequence; a sequence without
\* elements has the empty text cached.
is_final_element(last_segment, segments) ==
    IF segments = <<>> THEN last_segment = "" ELSE last_segment = segments[Len(segments)]

\* C12: in every reachable state each record's last_segment equals the final
\* element of the record's segments (read back from the stored JSON text), also
\* after repeat visits that update the record through the upsert; a record
\* whose segments are empty has the empty text as last_segment.
C12_LastSegmentIsFinalSegment ==
    \A i \in 1..Len(db) : is_final_element(db[i].last_segment, json_from_str(db[i].segments))

\* C12 witness: a repeat visit has just updated a record of two segments.
C12_Witness ==
    /\ last.op = "add_visit" /\ last.ret = "Ok"
    /\ RowOf(db, last.url).score >= 2
    /\ Len(json_from_str(RowOf(db, last.url).segments)) = 2
    /\ RowOf(db, last.url).last_segment = "docs"

\* C13: add_visit called with a string that does not parse as a URL (the empty
\* string, text without a scheme) returns an error and leaves the store as it
\* was: no record is created and no record's score or last_accessed changes.
C13_UnparsableVisitIsRejected ==
    [][(last'.op = "add_visit" /\ ~ParseUrl(last'.url).ok) =>
          /\ last'.ret = "Err"
          /\ db' = db]_vars

\* C13 witness: the empty string was rejected while the store held records.
C13_Witness ==
    /\ last.op = "add_visit" /\ last.ret = "Err"
    /\ last.url = ""
    /\ Len(db) >= 2
    /\ \E i \in 1..Len(db) : db[i].score >= 2

\* C14: prune_by_age(older_than_secs) removes exactly the records whose
\* last_accessed is below now - older_than_secs, leaves every other record in
\* place with all its fields, and returns the number of records it removed (0
\* on an empty store or when no record is old enough).
C14_PruneByAgeRemovesTheOld ==
    [][last'.op = "prune_by_age" =>
          LET cutoff == now - last'.older_than_secs
              old == {i \in 1..Len(db) : db[i].last_accessed < cutoff}
          IN  /\ \A i \in old : db[i].full_url \notin Urls(db')
              /\ \A i \in (1..Len(db)) \ old : \E j \in 1..Len(db') : db'[j] = db[i]
              /\ \A j \in 1..Len(db') : \E i \in (1..Len(db)) \ old : db[i] = db'[j]
              /\ Len(db') = Len(db) - Cardinality(old)
              /\ last'.ret = Cardinality(old)]_vars

\* C14 witness: pruning at one hour removed one record and kept the record
\* visited exactly one hour before the clock's time.
C14_Witness ==
    /\ last.op = "prune_by_age" /\ last.older_than_secs = Hour
    /\ last.ret = 1
    /\ Len(db) = 1
    /\ db[1].last_accessed = now - Hour
    /\ db[1].score >= 2

\* The call took the rows of rows at the indices in hit out of the store, left
\* every other row as it was and returned the number of rows it took out.
RemovedExactly(rows, rows2, hit, ret) ==
    /\ \A i \in hit : rows[i].full_url \notin Urls(rows2)
    /\ \A i \in (1..Len(rows)) \ hit : \E j \in 1..Len(rows2) : rows2[j] = rows[i]
    /\ Len(rows2) = Len(rows) - Cardinality(hit)
    /\ ret = Cardinality(hit)

\* The indices of the rows whose URL contains the text.
SubstringRows(rows, text) == {i \in 1..Len(rows) : Contains(rows[i].full_url, text)}

\* C15: prune_by_url_pattern with a pattern that has neither a leading ^ nor a
\* trailing $ removes exactly the records whose URL contains the pattern text,
\* each \. read as a plain dot, as a substring; it leaves every record whose URL
\* does not contain it in place and returns the number of records removed.
C15_UnanchoredPatternIsSubstring ==
    [][(last'.op = "prune_by_url_pattern" /\ last'.pattern \in UnanchoredPatterns) =>
          RemovedExactly(db, db', SubstringRows(db, unescape_dots(last'.pattern)),
                         last'.ret)]_vars

IsPrefixOf(p, u) == Len(p) <= Len(u) /\ SubSeq(u, 1, Len(p)) = p

IsSuffixOf(p, u) == Len(p) <= Len(u) /\ SubSeq(u, Len(u) - Len(p) + 1, Len(u)) = p

\* The pattern text between its anchors.
BetweenAnchors(t) ==
    SubSeq(t, (IF starts_with(t, "^") THEN 2 ELSE 1),
              (IF ends_with(t, "$") THEN Len(t) - 1 ELSE Len(t)))

\* What an anchored pattern t asks of a URL u.
AnchoredMatch(t, u) ==
    IF starts_with(t, "^") /\ ends_with(t, "$") THEN u = BetweenAnchors(t)
    ELSE IF starts_with(t, "^") THEN IsPrefixOf(BetweenAnchors(t), u)
    ELSE IsSuffixOf(BetweenAnchors(t), u)

AnchoredRows(rows, t) == {i \in 1..Len(rows) : AnchoredMatch(t, rows[i].full_url)}

\* C16: prune_by_url_pattern with an anchored pattern removes exactly, for ^p$
\* the records whose URL is p, for ^p the records whose URL starts with p, for
\* p$ the records whose URL ends with p, where p is the pattern without its
\* anchors and with each \. read as a plain dot; every other record stays and
\* the call returns the number of records removed.
C16_AnchoredPatternIsExactPrefixSuffix ==
    [][(last'.op = "prune_by_url_pattern" /\ last'.pattern \in AnchoredPatterns) =>
          RemovedExactly(db, db', AnchoredRows(db, unescape_dots(last'.pattern)),
                         last'.ret)]_vars

\* C17: get_highest_usage_urls(size) returns min(size, number of records)
\* entries, each the (url, score, last_accessed) of a different record, ordered
\* by score descending; every record it leaves out has a score no higher than
\* the lowest score it returns; on an empty store it returns the empty list.
C17_TopByUsage ==
    last.op = "get_highest_usage_urls" =>
        /\ Len(last.ret) = (IF last.size < Len(db) THEN last.size ELSE Len(db))
        /\ \A i, j \in 1..Len(last.ret) : i < j =>
              /\ last.ret[i][2] >= last.ret[j][2]
              /\ last.ret[i][1] # last.ret[j][1]
        /\ \A j \in 1..Len(last.ret) :
              \E i \in 1..Len(db) :
                  last.ret[j] = <<db[i].full_url, db[i].score, db[i].last_accessed>>
        /\ \A i \in 1..Len(db) :
              db[i].full_url \notin ResultUrls(last.ret) =>
                  \A j \in 1..Len(last.ret) : db[i].score <= last.ret[j][2]
        /\ db = <<>> => last.ret = <<>>

\* C17 witness: of three records the two returned are led by the one stored
\* last, and the one left out has a lower score than the first returned.
C17_Witness ==
    /\ last.op = "get_highest_usage_urls" /\ last.size = 2
    /\ Len(db) = 3 /\ Len(last.ret) = 2
    /\ db[1].score = 1 /\ db[3].score = 2
    /\ last.ret[1][1] = db[3].full_url
    /\ last.ret[1][2] > last.ret[2][2]

\* C18: frecency is the score times a multiplier that depends only on elapsed =
\* now - last_accessed: 4.0 when elapsed < 3600, 2.0 when 3600 <= elapsed <
\* 86400, 0.5 when 86400 <= elapsed < 604800 and 0.25 from 604800 on; for a fixed
\* score the frecency never increases as elapsed grows.  (ret is in quarters.)
C18_FrecencyIsStepFunction ==
    (last.op = "ret" /\ last.fn = "calculate_frecency") =>
        LET elapsed == last.clock - last.last_accessed
        IN  /\ elapsed < 3600 => last.ret = last.score * 16
            /\ (3600 <= elapsed /\ elapsed < 86400) => last.ret = last.score * 8
            /\ (86400 <= elapsed /\ elapsed < 604800) => last.ret = last.score * 2
            /\ elapsed >= 604800 => last.ret = last.score * 1
            /\ \A later \in ElapsedTimes :
                  later >= elapsed =>
                      calculate_frecency(last.score, last.clock - later, last.clock)
                          <= last.ret

\* C18 witness: a visit exactly one hour ago has the multiplier 2.0.
C18_Witness ==
    /\ last.op = "ret" /\ last.fn = "calculate_frecency"
    /\ last.clock - last.last_accessed = 3600
    /\ last.score = 5 /\ last.ret = 40

\* The address with the scheme the claim says is inferred for it.
SchemePrefixed(address) ==
    (IF Contains(address, ":") THEN "http" ELSE "https") \o "://" \o address

\* The address is of the form host:port...: digits follow the last colon of
\* the text before the first / ? or #.
GivesPort(address) ==
    LET authority == SubSeq(address, 1, FirstOf(address, {"/", "?", "#"}) - 1)
        c == RFind(authority, ":")
    IN  c # 0 /\ AllDigits(Rest(authority, c + 1))

\* What the claim asks of the result ret for the address, url being the parse
\* of the scheme-prefixed form.
ClassifiedAsCompleteUrl(address, url, ret) ==
    (url.ok /\ ((url.hostKind # "none" /\ Contains(url.host, ".")) \/ GivesPort(address)))
    => /\ ret.kind = "FullUrl"
       /\ ret.url = url
       /\ ret.url.scheme = (IF Contains(address, ":") THEN "http" ELSE "https")

\* C19: for an address without "://" classify_input infers http when the
\* address contains a colon and https otherwise, and returns a complete URL in
\* the scheme-prefixed form whenever that form parses and the parsed host
\* contains a dot or the address gives a port (host:port, whatever the port).
C19_SchemeInferredUrl ==
    (/\ last.op = "ret" /\ last.fn = "classify_input"
     /\ ~Contains(last.address, "://"))
    => ClassifiedAsCompleteUrl(last.address, ParseUrl(SchemePrefixed(last.address)), last.ret)

\* The indices at which a run of characters other than '/' begins in t.
RunStarts(t) ==
    {i \in 1..Len(t) : Ch(t, i) # "/" /\ (i = 1 \/ Ch(t, i - 1) = "/")}

\* The run that begins at index i: up to the next '/' or the end of t.
RunAt(t, i) ==
    LET slashes == {j \in i..Len(t) : Ch(t, j) = "/"}
    IN  SubSeq(t, i, (IF slashes = {} THEN Len(t) ELSE MinOf(slashes) - 1))

\* tokens are the runs of t, in the order they occur.
TokensAreRuns(tokens, t) ==
    /\ Len(tokens) = Cardinality(RunStarts(t))
    /\ \A i \in RunStarts(t) :
          tokens[Cardinality({j \in RunStarts(t) : j <= i})] = RunAt(t, i)

\* C20: whenever classify_input returns a fuzzy pattern, its tokens are exactly
\* the non-empty pieces of the address split on '/', each lowercased, in their
\* order: no token is empty, no token contains '/', leading, trailing and
\* doubled slashes produce no token, and an address made only of slashes gives
\* the empty pattern.
C20_FuzzyPatternTokens ==
    (last.op = "ret" /\ last.fn = "classify_input" /\ last.ret.kind = "FuzzyPattern")
    => /\ \A k \in 1..Len(last.ret.pattern) :
             last.ret.pattern[k] # "" /\ ~Contains(last.ret.pattern[k], "/")
       /\ TokensAreRuns(last.ret.pattern, to_lowercase(last.address))
       /\ (\A i \in 1..Len(last.address) : Ch(last.address, i) = "/")
             => last.ret.pattern = <<>>

\* C20 witness: leading, doubled and trailing slashes around two tokens with
\* capital letters.
C20_Witness ==
    /\ last.op = "ret" /\ last.fn = "classify_input"
    /\ last.address = "//GitHub//Rust-Lang/"
    /\ last.ret = [kind |-> "FuzzyPattern", pattern |-> <<"github", "rust-lang">>]

\* The calls of one run of open_address_impl made to function fn.
CallsTo(calls, fn) == {i \in 1..Len(calls) : calls[i].fn = fn}

\* C21: open_address_impl with the empty address returns the error of the
\* empty address before anything else is done: no call reaches the store
\* (neither get_best_match nor add_visit), the opener is not invoked, and the
\* records stay as they were.
C21_EmptyAddressRejectedFirst ==
    [][(last'.op = "open_address_impl" /\ last'.address = "")
       => /\ last'.ret = EmptyAddressError
          /\ last'.calls = <<>>
          /\ db' = db
          /\ visits' = visits]_vars

\* C21 witness: the empty address is refused while the store holds a record.
C21_Witness ==
    /\ last.op = "open_address_impl" /\ last.address = ""
    /\ last.ret = EmptyAddressError
    /\ db # <<>>

\* rows2 is rows after one visit of url at time: the URL has one record, a new
\* one with score 1 or the old one with its score raised by 1, last_accessed is
\* time, and the other records are as they were.
OneVisitRecorded(rows, rows2, url, time) ==
    /\ Cardinality(RowsOf(rows2, url)) = 1
    /\ RowOf(rows2, url).last_accessed = time
    /\ RowOf(rows2, url).score =
          (IF RowsOf(rows, url) = {} THEN 1 ELSE RowOf(rows, url).score + 1)
    /\ Len(rows2) = Len(rows) + (IF RowsOf(rows, url) = {} THEN 1 ELSE 0)
    /\ \A i \in 1..Len(rows) : rows[i].full_url # url => rows2[i] = rows[i]

\* C22: open_address_impl with an address classified as a complete URL never
\* calls the matcher.  Its first and only add_visit is for the canonical string
\* of that URL; when it succeeds exactly one visit of that string is recorded
\* and the opener is called once, with the same string and the caller's
\* preferred browser; when it fails nothing is recorded and the opener is not
\* called.
C22_FullUrlVisitedThenOpened ==
    [][(last'.op = "open_address_impl" /\ last'.address \in FullUrlAddresses)
       => /\ CallsTo(last'.calls, "get_best_match") = {}
          /\ CallsTo(last'.calls, "add_visit") = {1}
          /\ last'.calls[1].url = as_str_table[last'.address]
          /\ IF last'.calls[1].ok
             THEN /\ OneVisitRecorded(db, db', as_str_table[last'.address], now)
                  /\ CallsTo(last'.calls, "open") = {2}
                  /\ last'.calls[2].url = as_str_table[last'.address]
                  /\ last'.calls[2].browser = last'.preferred_browser
             ELSE /\ db' = db
                  /\ CallsTo(last'.calls, "open") = {}
                  /\ last'.ret = StorageError]_vars

\* C22 witness: github.com/rust-lang opened with firefox preferred, for the
\* second time: the visit counted on https://github.com/rust-lang and that
\* string handed to the opener.
C22_Witness ==
    /\ last.op = "open_address_impl" /\ last.address = "github.com/rust-lang"
    /\ last.preferred_browser = <<"firefox">>
    /\ last.ret = "Ok"
    /\ Len(last.calls) = 2
    /\ last.calls[1] = [fn |-> "add_visit", url |-> "https://github.com/rust-lang",
                        timestamp |-> now, ok |-> TRUE]
    /\ last.calls[2] = [fn |-> "open", url |-> "https://github.com/rust-lang",
                        browser |-> <<"firefox">>, ok |-> TRUE]
    /\ RowsOf(db, "https://github.com/rust-lang") # {}
    /\ RowOf(db, "https://github.com/rust-lang").score = 2

\* C23: open_address_impl with an address classified as a fuzzy pattern that no
\* record matches (the empty pattern of an address of slashes included) returns
\* the no-match error when the store answers, and the error of the store, a
\* different value, when the store fails; in both cases no add_visit is made,
\* every record stays as it was and the opener is not called.
C23_NoMatchIsAnErrorOfItsOwn ==
    [][(/\ last'.op = "open_address_impl"
        /\ last'.address \in FuzzyAddresses \ {""}
        /\ fuzzy_match_result(db, classify_table[last'.address].pattern, now) = <<>>)
       => /\ CallsTo(last'.calls, "get_best_match") = {1}
          /\ last'.calls[1].pattern = classify_table[last'.address].pattern
          /\ last'.ret = (IF last'.calls[1].ok THEN NoMatchError ELSE StorageError)
          /\ NoMatchError # StorageError
          /\ CallsTo(last'.calls, "add_visit") = {}
          /\ CallsTo(last'.calls, "open") = {}
          /\ db' = db
          /\ visits' = visits]_vars

\* C23 witness: the address /// gives the empty pattern, which matches none of
\* the records the store holds.
C23_Witness ==
    /\ last.op = "open_address_impl" /\ last.address = "///"
    /\ last.calls = <<[fn |-> "get_best_match", pattern |-> <<>>, ok |-> TRUE,
                       ret |-> <<>>]>>
    /\ last.ret = NoMatchError
    /\ db # <<>>

\* The step of open_address_impl that resolved its pattern to best_match: the
\* matcher returned it, the one add_visit is for it and, when that succeeds,
\* its record alone changes (score raised by 1, last_accessed the current
\* time, no record added) and the opener is called once with it.
ResolvedTo(best_match) ==
    /\ last'.calls[1].ret = <<best_match>>
    /\ CallsTo(last'.calls, "add_visit") = {2}
    /\ last'.calls[2].url = best_match
    /\ IF last'.calls[2].ok
       THEN /\ RowsOf(db, best_match) # {}
            /\ Len(db') = Len(db)
            /\ OneVisitRecorded(db, db', best_match, now)
            /\ CallsTo(last'.calls, "open") = {3}
            /\ last'.calls[3].url = best_match
            /\ last'.calls[3].browser = last'.preferred_browser
       ELSE /\ db' = db
            /\ CallsTo(last'.calls, "open") = {}

\* C28: open_address_impl with an address classified as a fuzzy pattern that
\* has a match records the visit on the best match and opens it: that record's
\* score rises by exactly 1 and its last_accessed becomes the current time, the
\* number of records is unchanged, every other record is unchanged, and the
\* opener receives exactly the URL get_best_match returned.
C28_BestMatchVisitedAndOpened ==
    [][(/\ last'.op = "open_address_impl"
        /\ last'.address \in FuzzyAddresses \ {""}
        /\ last'.calls[1].ok
        /\ get_best_match_result(db, classify_table[last'.address].pattern, now) # <<>>)
       => ResolvedTo(get_best_match_result(db, classify_table[last'.address].pattern,
                                           now)[1])]_vars

\* C28 witness: LocalHost/API opened while both localhost pages are recorded:
\* the visit is counted on the page the matcher returned and that page opened.
C28_Witness ==
    /\ last.op = "open_address_impl" /\ last.address = "LocalHost/API"
    /\ last.ret = "Ok"
    /\ {"http://localhost:8080/api", "http://localhost:3000/api"} \subseteq Urls(db)
    /\ Len(last.calls) = 3
    /\ last.calls[1].pattern = <<"localhost", "api">>
    /\ last.calls[3].url = last.calls[1].ret[1]
    /\ RowOf(db, last.calls[3].url).score >= 2
    /\ RowOf(db, last.calls[3].url).last_accessed = now

\* C29: in every run of open_address_impl the opener is called only after the
\* add_visit for the same URL has succeeded, and a failure of the opener does
\* not undo the visit: the function returns the opener's error while the
\* record exists with the visit counted.
C29_VisitRecordedBeforeOpen ==
    [][(last'.op = "open_address_impl")
       => /\ \A i \in CallsTo(last'.calls, "open") :
                /\ i > 1
                /\ last'.calls[i - 1].fn = "add_visit"
                /\ last'.calls[i - 1].ok
                /\ last'.calls[i - 1].url = last'.calls[i].url
                /\ OneVisitRecorded(db, db', last'.calls[i].url, now)
                /\ last'.ret = (IF last'.calls[i].ok THEN "Ok" ELSE LaunchError)
          /\ (last'.ret = LaunchError) => CallsTo(last'.calls, "open") # {}]_vars

\* C29 witness: the opener failed on the second opening of localhost:3000/api,
\* and the record of http://localhost:3000/api has score 2.
C29_Witness ==
    /\ last.op = "open_address_impl" /\ last.address = "localhost:3000/api"
    /\ last.ret = LaunchError
    /\ RowsOf(db, "http://localhost:3000/api") # {}
    /\ RowOf(db, "http://localhost:3000/api").score = 2
    /\ RowOf(db, "http://localhost:3000/api").last_accessed = now

\* C24: when two or more callers run add_visit on the same URL at the same
\* time, every interleaving leaves exactly one record for the URL and its score
\* is the number of the calls that succeeded: the insert-or-increment is one
\* step of the store, so no visit is lost and no second record appears.
C24_ConcurrentVisitsAllCounted ==
    \A url \in ConcurrentUrls :
        IF visits[url] = 0
        THEN RowsOf(db, url) = {}
        ELSE /\ Cardinality(RowsOf(db, url)) = 1
             /\ RowOf(db, url).score = visits[url]

\* C24 witness: a call that began while the store had no record of its URL
\* ends after another caller's visit of the same URL: the record has score 2
\* and no call is in progress.
C24_Witness ==
    /\ last.op = "add_visit" /\ last.ret = "Ok"
    /\ last.seen = <<>>
    /\ Cardinality(RowsOf(db, last.url)) = 1
    /\ RowOf(db, last.url).score = 2
    /\ visits[last.url] = 2
    /\ \A caller \in Callers : in_flight[caller].pc = "idle"

\* C25 as stated: does_pattern_match_segments returns false whenever the last
\* stored segment is a different string from the last pattern token.
C25_FalseWhenLastSegmentDiffers ==
    (/\ last.op = "ret" /\ last.fn = "does_pattern_match_segments"
     /\ last.pattern # <<>> /\ last.url_segments # <<>>
     /\ last.url_segments[Len(last.url_segments)] # last.pattern[Len(last.pattern)])
    => ~last.ret

\* C25: does_pattern_match_segments returns false whenever the last pattern
\* token does not anchor-match the last stored segment (equality without
\* regard to case for a token of fewer than 3 characters, the fuzzy test for a
\* longer one), even when that token occurs earlier in the stored sequence.
C25_FalseWhenLastAnchorFails ==
    (/\ last.op = "ret" /\ last.fn = "does_pattern_match_segments"
     /\ last.pattern # <<>> /\ last.url_segments # <<>>
     /\ ~AnchorMatches(last.pattern[Len(last.pattern)],
                       last.url_segments[Len(last.url_segments)]))
    => ~last.ret

\* C25 witness: the pattern [github, git] against [github, git, gh]: both
\* tokens occur in order, the last segment gh does not match git.
C25_Witness ==
    /\ last.op = "ret" /\ last.fn = "does_pattern_match_segments"
    /\ last.pattern = <<"github", "git">>
    /\ last.url_segments = <<"github", "git", "gh">>
    /\ IsOrderedSubsequence(last.pattern, last.url_segments)
    /\ ~last.ret

\* C26: the ordering scan accepts exactly when the pattern is a subsequence of
\* the stored sequence under exact string equality, so taking the earliest
\* occurrence of each token loses no match, whatever the gaps and repetitions.
\* Hence does_pattern_match_segments returns true only for such a pattern, and
\* for every such pattern whose anchors match; a pattern longer than the stored
\* sequence and a non-empty pattern against the empty stored sequence are
\* rejected.
C26_ScanIsSubsequenceTest ==
    (last.op = "ret" /\ last.fn = "does_pattern_match_segments")
    => /\ ordering_scan(last.url_segments, last.pattern, 0)
            <=> IsOrderedSubsequence(last.pattern, last.url_segments)
       /\ last.ret => IsOrderedSubsequence(last.pattern, last.url_segments)
       /\ (/\ last.pattern # <<>> /\ last.url_segments # <<>>
           /\ AnchorMatches(last.pattern[1], last.url_segments[1])
           /\ AnchorMatches(last.pattern[Len(last.pattern)],
                            last.url_segments[Len(last.url_segments)])
           /\ IsOrderedSubsequence(last.pattern, last.url_segments))
          => last.ret
       /\ Len(last.pattern) > Len(last.url_segments) => ~last.ret
       /\ (last.pattern # <<>> /\ last.url_segments = <<>>) => ~last.ret

\* C26 witness: the pattern [github, github] against [github, git, github]: a
\* repeated token, found across a gap.
C26_Witness ==
    /\ last.op = "ret" /\ last.fn = "does_pattern_match_segments"
    /\ last.pattern = <<"github", "github">>
    /\ last.url_segments = <<"github", "git", "github">>
    /\ last.ret

\* C27: when the first pattern token has fewer than 3 characters,
\* does_pattern_match_segments returns true only if the first stored segment
\* equals it without regard to case, and the same holds of the last token and
\* the last stored segment: the fuzzy test decides an anchor only for a token
\* of 3 or more characters.
C27_ShortTokensAnchorByEquality ==
    (/\ last.op = "ret" /\ last.fn = "does_pattern_match_segments"
     /\ last.pattern # <<>> /\ last.ret)
    => /\ last.url_segments # <<>>
       /\ Len(last.pattern[1]) < 3
             => to_lowercase(last.url_segments[1]) = to_lowercase(last.pattern[1])
       /\ Len(last.pattern[Len(last.pattern)]) < 3
             => to_lowercase(last.url_segments[Len(last.url_segments)])
                    = to_lowercase(last.pattern[Len(last.pattern)])

\* C27 witness: the pattern [gh] against [github, gh] is rejected although gh
\* passes the fuzzy test against github and occurs in the stored sequence.
C27_Witness ==
    /\ last.op = "ret" /\ last.fn = "does_pattern_match_segments"
    /\ last.pattern = <<"gh">>
    /\ last.url_segments = <<"github", "gh">>
    /\ skim_fuzzy_match("github", "gh")
    /\ ~last.ret

\* The record row is found by the pattern made of its own segments.
FoundByOwnSegments(rows, row, own, clock) ==
    /\ row.full_url \in ResultUrls(fuzzy_match_result(rows, own, clock))
    /\ get_best_match_result(rows, own, clock) # <<>>

\* C30: a recorded URL is found by its own segment sequence: as long as the
\* record of a URL with a non-empty segment sequence s exists, fuzzy_match(s)
\* contains the URL and get_best_match(s) is not None; a fuzzy_match just made
\* with the segments of a recorded URL has returned that URL.
C30_RecordedUrlFoundByOwnSegments ==
    /\ \A i \in 1..Len(db) :
          json_from_str(db[i].segments) # <<>>
          => FoundByOwnSegments(db, db[i], json_from_str(db[i].segments), now)
    /\ \A i \in 1..Len(db) :
          (last.op = "fuzzy_match" /\ last.pattern = json_from_str(db[i].segments))
          => db[i].full_url \in ResultUrls(last.ret)
    /\ \A i \in 1..Len(db) :
          (last.op = "get_best_match" /\ last.pattern = json_from_str(db[i].segments))
          => last.ret # <<>>

\* C30 witness: two URLs with the segments [example.com, docs] are recorded and
\* fuzzy_match of those segments has returned both.
C30_Witness ==
    /\ last.op = "fuzzy_match"
    /\ last.pattern = <<"example.com", "docs">>
    /\ {"https://Example.COM/Docs", "http://example.com/docs"} \subseteq Urls(db)
    /\ ResultUrls(last.ret) = {"https://Example.COM/Docs", "http://example.com/docs"}

====
